---- MODULE Spec2Model ----
(***************************************************************************)
(* kinto-http.rs: the request builder and dispatcher (src/request.rs), the *)
(* hydration of buckets, collections and records from a response envelope  *)
(* (src/bucket.rs, src/collection.rs, src/record.rs) and the resource      *)
(* protocol that drives them against a Kinto server.                       *)
(*                                                                         *)
(* The Resource trait (create/load/update/set/delete), the path builder,   *)
(* the utils helpers and the server are not part of the sources at hand;   *)
(* they are modelled from the specification.                               *)
(***************************************************************************)
EXTENDS Integers, Sequences, FiniteSets, TLC

\* ------------------------------------------------------------------------
\* Bounds of the model
\* ------------------------------------------------------------------------
\* Largest revision timestamp the server hands out.
MaxTs == 3
\* Number of ids the server can generate for POSTs without an id.
MaxGen == 1

\* ------------------------------------------------------------------------
\* Option<T>: None is the empty set, Some(x) the singleton.
\* ------------------------------------------------------------------------
None == {}
Some(x) == {x}
IsSome(o) == o # {}
Unwrap(o) == CHOOSE x \in o : TRUE

\* ------------------------------------------------------------------------
\* JSON values (json::JsonValue / serde_json::Value)
\* ------------------------------------------------------------------------
JNull == [t |-> "null"]
JStr(s) == [t |-> "str", s |-> s]
JNum(n) == [t |-> "num", n |-> n]
JBool(b) == [t |-> "bool", b |-> b]
JArr(seq) == [t |-> "arr", a |-> seq]
JObj(f) == [t |-> "obj", o |-> f]
EmptyObj == JObj(<<>>)

\* json["key"]: Null when json is not an object or has no such key.
Index(j, k) ==
    IF j.t = "obj" /\ k \in DOMAIN j.o THEN j.o[k] ELSE JNull

\* json["key"] = v on an object.
SetKey(j, k, v) ==
    JObj([x \in (DOMAIN j.o) \cup {k} |-> IF x = k THEN v ELSE j.o[x]])

\* Strings that end up in paths are sequences of path segments: the id "food"
\* is <<"food">>, and joining with "/" is concatenation.
\* JsonValue::to_string(): the dump of the value; a string dumps as its text,
\* null as the text "null".
to_string(j) ==
    CASE j.t = "str" -> j.s
      [] j.t = "null" -> <<"null">>
      [] OTHER -> <<"json">>

\* JsonValue::as_number() / Value::as_u64()
AsNumber(j) == IF j.t = "num" THEN Some(j.n) ELSE None

\* JsonValue::as_str()
AsStr(j) == IF j.t = "str" THEN Some(j.s) ELSE None

\* ------------------------------------------------------------------------
\* Client handle
\* ------------------------------------------------------------------------
ServerUrl == "http://kinto"
KintoClient(auth) == [server_url |-> ServerUrl, auth |-> auth]
TheClient == KintoClient(Some("Basic alice"))

\* ------------------------------------------------------------------------
\* Headers: a map from header name to value; set() replaces.
\* ------------------------------------------------------------------------
NoHeaders == <<>>
HeadersSet(h, name, value) ==
    [n \in (DOMAIN h) \cup {name} |-> IF n = name THEN value ELSE h[n]]

\* ------------------------------------------------------------------------
\* Request builder (src/request.rs)
\* ------------------------------------------------------------------------
RequestPreparer(client, path) ==
    [client |-> client, method |-> "GET", path |-> path,
     headers |-> NoHeaders, query |-> "", body |-> None]

WithMethod(p, m) == [p EXCEPT !.method = m]

GetCollection(client, path) == WithMethod(RequestPreparer(client, path), "GET")
DeleteCollection(client, path) == WithMethod(RequestPreparer(client, path), "DELETE")
CreateRecord(client, path) == WithMethod(RequestPreparer(client, path), "POST")
GetRecord(client, path) == WithMethod(RequestPreparer(client, path), "GET")
UpdateRecord(client, path) == WithMethod(RequestPreparer(client, path), "PUT")
DeleteRecord(client, path) == WithMethod(RequestPreparer(client, path), "DELETE")

if_match_noop(p, tag) == p
if_match(p, tag) == [p EXCEPT !.headers = HeadersSet(@, "If-Match", tag)]

if_none_match(p, tag) == [p EXCEPT !.headers = HeadersSet(@, "If-None-Match", tag)]

\* PayloadedEndpoint::data
data(p, d) ==
    IF d = None THEN p
    ELSE LET body == IF IsSome(p.body) THEN Unwrap(p.body) ELSE EmptyObj
         IN [p EXCEPT !.body = Some(SetKey(body, "data", Unwrap(d)))]

\* PayloadedEndpoint::permissions
permissions_freshBody(p, perms) ==
    IF perms = None THEN p
    ELSE [p EXCEPT !.body = Some(SetKey(EmptyObj, "permissions", Unwrap(perms)))]
permissions(p, perms) ==
    IF perms = None THEN p
    ELSE LET body == IF IsSome(p.body) THEN Unwrap(p.body) ELSE EmptyObj
         IN [p EXCEPT !.body = Some(SetKey(body, "permissions", Unwrap(perms)))]

\* ------------------------------------------------------------------------
\* Dispatcher (KintoRequest::send), in two halves: what goes on the wire,
\* and how the transport's outcome is classified.
\* ------------------------------------------------------------------------
\* The merged header set: the request's headers, then the client's
\* authentication header set on top of them.
MergedHeaders(p) ==
    IF IsSome(p.client.auth)
    THEN HeadersSet(p.headers, "Authorization", Unwrap(p.client.auth))
    ELSE p.headers

\* body.dump(), or the empty text.
Payload(p) ==
    IF IsSome(p.body) THEN [text |-> "json", json |-> Unwrap(p.body)]
    ELSE [text |-> "empty"]

WireRequest(p) ==
    [method |-> p.method,
     url |-> <<p.client.server_url, p.path, "?", p.query>>,
     headers |-> MergedHeaders(p),
     payload |-> Payload(p)]

\* KintoError values and Result.
HyperError == [kind |-> "HyperError"]
NotModified == [kind |-> "NotModified"]
PreconditionError == [kind |-> "PreconditionError"]
JsonError == [kind |-> "JsonError"]
IoError == [kind |-> "IoError"]
Ok(v) == [ok |-> TRUE, value |-> v]
Err(e) == [ok |-> FALSE, err |-> e]

IsSuccess(status) == status \in 200..299

\* A transport outcome: no response at all, or a response with a status and
\* a body that cannot be read, is not JSON, or is the JSON value `json`.
TransportFailure == [transport |-> "failed"]
Response(status, body, json) ==
    [transport |-> "ok", status |-> status, body |-> body, json |-> json]

send_genericFirst(p, resp) ==
    IF resp.transport # "ok" THEN Err(HyperError)
    ELSE IF ~IsSuccess(resp.status) THEN Err(HyperError)
    ELSE IF resp.status = 304 THEN Err(NotModified)
    ELSE IF resp.status = 412 THEN Err(PreconditionError)
    ELSE IF resp.body = "unreadable" THEN Err(IoError)
    ELSE IF resp.body = "garbage" THEN Err(JsonError)
    ELSE Ok([client |-> p.client, path |-> p.path,
             status |-> resp.status, json |-> resp.json])
send(p, resp) ==
    IF resp.transport # "ok" THEN Err(HyperError)
    ELSE IF resp.status = 304 THEN Err(NotModified)
    ELSE IF resp.status = 412 THEN Err(PreconditionError)
    ELSE IF ~IsSuccess(resp.status) THEN Err(HyperError)
    ELSE IF resp.body = "unreadable" THEN Err(IoError)
    ELSE IF resp.body = "garbage" THEN Err(JsonError)
    ELSE Ok([client |-> p.client, path |-> p.path,
             status |-> resp.status, json |-> resp.json])

\* ResponseWrapper, as send builds it
ResponseWrapper(client, path, json) ==
    [client |-> client, path |-> path, status |-> 200, json |-> json]

\* ------------------------------------------------------------------------
\* Path builder (Paths): "/buckets/{b}/collections/{c}/records/{r}"
\* ------------------------------------------------------------------------
Paths_Buckets == <<"buckets">>
Paths_Bucket(b) == Paths_Buckets \o b
Paths_Collections(b) == Paths_Bucket(b) \o <<"collections">>
Paths_Collection(b, c) == Paths_Collections(b) \o c
Paths_Records(b, c) == Paths_Collection(b, c) \o <<"records">>
Paths_Record(b, c, r) == Paths_Records(b, c) \o r

\* utils::extract_ids_from_path: the ancestor ids of a canonical path.
extract_ids_from_path(path) ==
    [buckets |-> IF Len(path) >= 2 /\ path[1] = "buckets"
                 THEN Some(<<path[2]>>) ELSE None,
     collections |-> IF Len(path) >= 4 /\ path[3] = "collections"
                     THEN Some(<<path[4]>>) ELSE None]

\* utils::format_permissions: a JSON array of principals as a Vec<String>.
format_permissions(j) ==
    IF j.t = "arr" THEN [i \in 1..Len(j.a) |-> to_string(j.a[i])] ELSE <<>>

\* Vec<String> into JsonValue
VecToJson(v) == JArr([i \in 1..Len(v) |-> JStr(v[i])])

\* utils::unwrap_collection_ids: the ids of a plural response.
unwrap_collection_ids(wrapper) ==
    LET arr == Index(wrapper.json, "data")
    IN IF arr.t = "arr"
       THEN [i \in 1..Len(arr.a) |-> to_string(Index(arr.a[i], "id"))]
       ELSE <<>>

\* ------------------------------------------------------------------------
\* Buckets (src/bucket.rs)
\* ------------------------------------------------------------------------
\* From<JsonValue> for BucketPermissions
BucketPermissions_from(j) ==
    [read |-> format_permissions(Index(j, "read")),
     write |-> format_permissions(Index(j, "write")),
     create_collection |-> format_permissions(Index(j, "create:collection")),
     create_group |-> format_permissions(Index(j, "create:group"))]

\* Into<JsonValue> for BucketPermissions
BucketPermissions_into(perms) ==
    JObj([k \in {"read", "write", "collection:create", "group:create"} |->
            CASE k = "read" -> VecToJson(perms.read)
              [] k = "write" -> VecToJson(perms.write)
              [] k = "collection:create" -> VecToJson(perms.create_collection)
              [] k = "group:create" -> VecToJson(perms.create_group)])

Bucket_new(client, id) ==
    [client |-> client, id |-> id,
     timestamp |-> None, data |-> None, permissions |-> None]

\* From<ResponseWrapper> for Bucket.  The unwrap() of last_modified panics
\* when the body has none; every singular response of the server has one.
Bucket_from(wrapper) ==
    [client |-> wrapper.client,
     data |-> Some(Index(wrapper.json, "data")),
     permissions |-> Some(BucketPermissions_from(Index(wrapper.json, "permissions"))),
     id |-> to_string(Index(Index(wrapper.json, "data"), "id")),
     timestamp |-> Some(Unwrap(AsNumber(
                      Index(Index(wrapper.json, "data"), "last_modified"))))]

\* Bucket::get_permissions
Bucket_get_permissions(b) ==
    IF IsSome(b.permissions)
    THEN Some(BucketPermissions_into(Unwrap(b.permissions)))
    ELSE None

\* ------------------------------------------------------------------------
\* Collections (src/collection.rs)
\* ------------------------------------------------------------------------
Collection_new(client, bucket, id) ==
    [client |-> client, bucket |-> bucket, id |-> id,
     timestamp |-> None, data |-> None, permissions |-> None]

\* From<ResponseWrapper> for Collection
Collection_from_bucketFromBody(wrapper) ==
    LET bucket_id == to_string(Index(Index(wrapper.json, "data"), "id"))
    IN [client |-> wrapper.client,
        bucket |-> Bucket_new(wrapper.client, bucket_id),
        data |-> Some(Index(wrapper.json, "data")),
        permissions |-> Some(Index(wrapper.json, "permissions")),
        id |-> to_string(Index(Index(wrapper.json, "data"), "id")),
        timestamp |-> Some(Unwrap(AsNumber(
                         Index(Index(wrapper.json, "data"), "last_modified"))))]
Collection_from(wrapper) ==
    LET path_ids == extract_ids_from_path(wrapper.path)
        bucket_id == Unwrap(path_ids.buckets)
    IN [client |-> wrapper.client,
        bucket |-> Bucket_new(wrapper.client, bucket_id),
        data |-> Some(Index(wrapper.json, "data")),
        permissions |-> Some(Index(wrapper.json, "permissions")),
        id |-> to_string(Index(Index(wrapper.json, "data"), "id")),
        timestamp |-> Some(Unwrap(AsNumber(
                         Index(Index(wrapper.json, "data"), "last_modified"))))]

\* ------------------------------------------------------------------------
\* Records (src/record.rs)
\* ------------------------------------------------------------------------
RecordPermissions_default == [read |-> None, write |-> None]

\* serde_json::from_value::<RecordPermissions>
RecordPermissions_from(j) ==
    [read |-> IF Index(j, "read").t = "arr"
              THEN Some(format_permissions(Index(j, "read"))) ELSE None,
     write |-> IF Index(j, "write").t = "arr"
               THEN Some(format_permissions(Index(j, "write"))) ELSE None]

\* serde_json::to_value(&RecordPermissions), None fields skipped
RecordPermissions_to_value(perms) ==
    JObj([k \in {x \in {"read", "write"} : IsSome(perms[x])} |->
            VecToJson(Unwrap(perms[k]))])

\* Record::new
Record_new(collection) ==
    [data |-> None, permissions |-> RecordPermissions_default,
     collection |-> collection, id |-> None]

\* Record::new_by_id
Record_new_by_id(collection, id) ==
    [data |-> None, permissions |-> RecordPermissions_default,
     collection |-> collection, id |-> Some(id)]

\* Record::unwrap_response
Record_unwrap_response_dataNotAssigned(self, wrapper) ==
    [self EXCEPT
       !.permissions = RecordPermissions_from(Index(wrapper.json, "permissions")),
       !.id = Some(Unwrap(AsStr(Index(Index(wrapper.json, "data"), "id"))))]
Record_unwrap_response(self, wrapper) ==
    [self EXCEPT
       !.data = Some(Index(wrapper.json, "data")),
       !.permissions = RecordPermissions_from(Index(wrapper.json, "permissions")),
       !.id = Some(Unwrap(AsStr(Index(Index(wrapper.json, "data"), "id"))))]

\* The record built from an envelope (the return value of new_record): a new
\* record of the collection named by the path, filled from the envelope.
Record_from(wrapper) ==
    LET path_ids == extract_ids_from_path(wrapper.path)
        bucket == Bucket_new(wrapper.client, Unwrap(path_ids.buckets))
    IN Record_unwrap_response(
           Record_new(Collection_new(wrapper.client, bucket,
                                     Unwrap(path_ids.collections))),
           wrapper)

\* Record::get_timestamp
Record_get_timestamp(self) ==
    IF IsSome(self.data)
    THEN AsNumber(Index(Unwrap(self.data), "lat_modified"))
    ELSE None

\* Record::get_id
Record_get_id(self) ==
    IF IsSome(self.id) THEN self.id
    ELSE IF IsSome(self.data) THEN AsStr(Index(Unwrap(self.data), "id"))
    ELSE None

\* Record::resource_path
Record_resource_path(self) ==
    Paths_Collection(self.collection.bucket.id, self.collection.id)
        \o <<"records">>

\* ------------------------------------------------------------------------
\* The Resource hooks of the three kinds, by kind
\* ------------------------------------------------------------------------
Kinds == {"bucket", "collection", "record"}

get_client(k, self) ==
    IF k = "record" THEN self.collection.client ELSE self.client

get_id(k, self) ==
    IF k = "record" THEN Unwrap(Record_get_id(self)) ELSE self.id

get_data(k, self) == self.data

get_permissions(k, self) ==
    CASE k = "bucket" -> Bucket_get_permissions(self)
      [] k = "collection" -> self.permissions
      [] k = "record" -> Some(RecordPermissions_to_value(self.permissions))

get_timestamp(k, self) ==
    IF k = "record" THEN Record_get_timestamp(self) ELSE self.timestamp

\* The path of the resource itself and of the list it lives in.
resource_path(k, self) ==
    CASE k = "bucket" -> Paths_Buckets
      [] k = "collection" -> Paths_Collections(self.bucket.id)
      [] k = "record" -> Record_resource_path(self)

item_path(k, self) ==
    CASE k = "bucket" -> Paths_Bucket(self.id)
      [] k = "collection" -> Paths_Collection(self.bucket.id, self.id)
      [] k = "record" -> Record_resource_path(self) \o get_id(k, self)

load_request(k, self) == GetRecord(get_client(k, self), item_path(k, self))
update_request_listPath(k, self) ==
    UpdateRecord(get_client(k, self), resource_path(k, self))
update_request(k, self) == UpdateRecord(get_client(k, self), item_path(k, self))
delete_request(k, self) == DeleteRecord(get_client(k, self), item_path(k, self))
create_request(k, self) == CreateRecord(get_client(k, self), resource_path(k, self))

\* unwrap_response: a bucket and a collection are replaced by the value built
\* from the envelope, a record is updated in place.
unwrap_response_keepData(k, self, wrapper) ==
    CASE k = "bucket" -> [Bucket_from(wrapper) EXCEPT !.data = self.data]
      [] k = "collection" -> [Collection_from(wrapper) EXCEPT !.data = self.data]
      [] k = "record" ->
           [Record_unwrap_response(self, wrapper) EXCEPT !.data = self.data]
unwrap_response_keepBucket(k, self, wrapper) ==
    CASE k = "bucket" -> Bucket_from(wrapper)
      [] k = "collection" -> [Collection_from(wrapper) EXCEPT !.bucket = self.bucket]
      [] k = "record" -> Record_unwrap_response(self, wrapper)
unwrap_response(k, self, wrapper) ==
    CASE k = "bucket" -> Bucket_from(wrapper)
      [] k = "collection" -> Collection_from(wrapper)
      [] k = "record" -> Record_unwrap_response(self, wrapper)

\* The requests of a parent over its children (Bucket::*_collections_request,
\* Collection::*_records_request).
list_children_request_itemPath(k, parent) ==
    IF k = "collection"
    THEN GetCollection(parent.client, Paths_Bucket(parent.id))
    ELSE GetCollection(parent.client, Paths_Collection(parent.bucket.id, parent.id))
list_children_request(k, parent) ==
    IF k = "collection"
    THEN GetCollection(parent.client, Paths_Collections(parent.id))
    ELSE GetCollection(parent.client, Paths_Records(parent.bucket.id, parent.id))

delete_children_request(k, parent) ==
    IF k = "collection"
    THEN DeleteCollection(parent.client, Paths_Collections(parent.id))
    ELSE DeleteCollection(parent.client, Paths_Records(parent.bucket.id, parent.id))

create_child_request(k, parent) ==
    IF k = "collection"
    THEN CreateRecord(parent.client, Paths_Collections(parent.id))
    ELSE CreateRecord(parent.client, Paths_Records(parent.bucket.id, parent.id))

\* ------------------------------------------------------------------------
\* The Resource protocol: the request each operation sends
\* ------------------------------------------------------------------------
IfMatchAny == [any |-> TRUE]
EntityTag(ts) == [any |-> FALSE, tag |-> ts]

\* The data sent by create: the resource's data, carrying its id.
DataWithId(k, self) ==
    LET d == IF IsSome(get_data(k, self)) THEN Unwrap(get_data(k, self))
             ELSE EmptyObj
    IN Some(SetKey(d, "id", JStr(get_id(k, self))))

Resource_create(k, self) ==
    permissions(data(create_request(k, self), DataWithId(k, self)),
                get_permissions(k, self))

Resource_load(k, self) == load_request(k, self)

Resource_set(k, self) ==
    permissions(data(update_request(k, self), get_data(k, self)),
                get_permissions(k, self))

\* update: with the last known revision when asked to and known, otherwise
\* only requiring that the resource exists.
Resource_update(k, self, conditional) ==
    if_match(Resource_set(k, self),
             IF conditional /\ IsSome(get_timestamp(k, self))
             THEN EntityTag(Unwrap(get_timestamp(k, self)))
             ELSE IfMatchAny)

Resource_delete(k, self) == delete_request(k, self)

\* ------------------------------------------------------------------------
\* The server, for the resources of one kind under one parent
\* ------------------------------------------------------------------------
BucketId == <<"food">>
CollectionId == <<"meat">>
RecordId == <<"entrecote">>
Owner == <<"basicauth:alice">>

GenNames == <<"gen1", "gen2", "gen3", "gen4">>
GenIds == {<<GenNames[i]>> : i \in 1..MaxGen}

OwnId(k) ==
    CASE k = "bucket" -> BucketId
      [] k = "collection" -> CollectionId
      [] k = "record" -> RecordId

ServerIds(k) == {OwnId(k)} \cup GenIds

ListPath(k) ==
    CASE k = "bucket" -> Paths_Buckets
      [] k = "collection" -> Paths_Collections(BucketId)
      [] k = "record" -> Paths_Records(BucketId, CollectionId)

Existing(srv) == {id \in DOMAIN srv : IsSome(srv[id])}
LastModified(item) == Index(item.data, "last_modified").n

\* The body of a singular response.
Singular(item) ==
    JObj([x \in {"data", "permissions"} |->
            IF x = "data" THEN item.data ELSE item.permissions])

\* The body of a plural response, newest first.
RECURSIVE Plural(_, _)
Plural(srv, ids) ==
    IF ids = {} THEN <<>>
    ELSE LET m == CHOOSE i \in ids : \A j \in ids :
                      LastModified(Unwrap(srv[j])) <= LastModified(Unwrap(srv[i]))
         IN <<Unwrap(srv[m]).data>> \o Plural(srv, ids \ {m})

\* What the server stores for a write of `body` to `id` at time `ts`.
Stored(body, id, ts) ==
    LET d == IF Index(body, "data").t = "obj" THEN Index(body, "data")
             ELSE EmptyObj
        perms == IF Index(body, "permissions").t = "obj"
                 THEN Index(body, "permissions") ELSE EmptyObj
    IN [data |-> SetKey(SetKey(d, "id", JStr(id)), "last_modified", JNum(ts)),
        permissions |-> SetKey(perms, "write", JArr(<<JStr(Owner)>>))]

BodyOf(wire) ==
    IF wire.payload.text = "json" THEN wire.payload.json ELSE JNull

NoChange(srv, clk, status, json) ==
    [resp |-> Response(status, "json", json), server |-> srv, clock |-> clk,
     inBounds |-> TRUE]

Write(srv, clk, id, body, status) ==
    LET item == Stored(body, id, clk + 1)
    IN [resp |-> Response(status, "json", Singular(item)),
        server |-> [srv EXCEPT ![id] = Some(item)],
        clock |-> clk + 1,
        inBounds |-> clk + 1 <= MaxTs]

ErrorBody(status) == JObj([x \in {"code"} |-> JNum(status)])

\* POST on the list: create, with the id of the body or a generated one.
ServerPost(srv, clk, wire) ==
    LET asked == AsStr(Index(Index(BodyOf(wire), "data"), "id"))
        free == {g \in GenIds : srv[g] = None}
    IN IF IsSome(asked)
       THEN IF Unwrap(asked) \notin DOMAIN srv
            THEN NoChange(srv, clk, 400, ErrorBody(400))
            ELSE IF IsSome(srv[Unwrap(asked)])
            THEN NoChange(srv, clk, 409, ErrorBody(409))
            ELSE Write(srv, clk, Unwrap(asked), BodyOf(wire), 201)
       ELSE IF free = {}
            THEN [NoChange(srv, clk, 507, ErrorBody(507)) EXCEPT !.inBounds = FALSE]
            ELSE Write(srv, clk, CHOOSE g \in free : TRUE, BodyOf(wire), 201)

\* PUT on an item: replace or create, under the conditional headers.
ServerPut(srv, clk, wire, id) ==
    LET h == wire.headers
        exists == IsSome(srv[id])
    IN IF "If-None-Match" \in DOMAIN h /\ exists
       THEN NoChange(srv, clk, 412, ErrorBody(412))
       ELSE IF "If-Match" \in DOMAIN h /\ ~exists
       THEN NoChange(srv, clk, 404, ErrorBody(404))
       ELSE IF /\ "If-Match" \in DOMAIN h
               /\ ~h["If-Match"].any
               /\ h["If-Match"].tag # LastModified(Unwrap(srv[id]))
       THEN NoChange(srv, clk, 412, ErrorBody(412))
       ELSE Write(srv, clk, id, BodyOf(wire), IF exists THEN 200 ELSE 201)

ServerHandle(k, srv, clk, wire) ==
    LET path == wire.url[2]
        ids == {id \in DOMAIN srv : path = ListPath(k) \o id}
    IN IF ~("Authorization" \in DOMAIN wire.headers
            /\ wire.headers["Authorization"] = Unwrap(TheClient.auth))
       THEN NoChange(srv, clk, 401, ErrorBody(401))
       ELSE IF path = ListPath(k)
       THEN CASE wire.method = "GET" ->
                   NoChange(srv, clk, 200,
                            JObj([x \in {"data"} |-> JArr(Plural(srv, Existing(srv)))]))
              [] wire.method = "POST" -> ServerPost(srv, clk, wire)
              [] wire.method = "DELETE" ->
                   [resp |-> Response(200, "json",
                              JObj([x \in {"data"} |-> JArr(Plural(srv, Existing(srv)))])),
                    server |-> [id \in DOMAIN srv |-> None],
                    clock |-> clk + 1,
                    inBounds |-> clk + 1 <= MaxTs]
              [] OTHER -> NoChange(srv, clk, 405, ErrorBody(405))
       ELSE IF ids # {}
       THEN LET id == CHOOSE x \in ids : TRUE
            IN CASE wire.method = "GET" ->
                      IF IsSome(srv[id])
                      THEN NoChange(srv, clk, 200, Singular(Unwrap(srv[id])))
                      ELSE NoChange(srv, clk, 404, ErrorBody(404))
                 [] wire.method = "PUT" -> ServerPut(srv, clk, wire, id)
                 [] wire.method = "DELETE" ->
                      IF IsSome(srv[id])
                      THEN [resp |-> Response(200, "json", Singular(Unwrap(srv[id]))),
                            server |-> [srv EXCEPT ![id] = None],
                            clock |-> clk + 1,
                            inBounds |-> clk + 1 <= MaxTs]
                      ELSE NoChange(srv, clk, 404, ErrorBody(404))
                 [] OTHER -> NoChange(srv, clk, 405, ErrorBody(405))
       ELSE NoChange(srv, clk, 404, ErrorBody(404))

\* ------------------------------------------------------------------------
\* State
\* ------------------------------------------------------------------------
VARIABLES
    kind,      \* the resource kind the two instances are of
    server,    \* id -> Option of the stored resource, for that kind
    clock,     \* the server's revision clock
    inst,      \* the in-memory resource value of each client instance
    made,      \* children created since the parent was last emptied
    removed,   \* whether one of them was deleted singly since then
    snap,      \* per instance: the data it held right after its last
               \* successful create/set, while the server resource is unwritten
    last       \* the last operation: request, wire form, response, result,
               \* the ids a list returned, the child a new_* returned,
               \* whether it repeats a successful set of the same instance,
               \* the number of calls made to the transport,
               \* the parent bucket a collection embedded before it

vars == <<kind, server, clock, inst, made, removed, snap, last>>

Instances == {"A", "B"}

\* Bucket::collection, Collection::record, client.bucket(..): fresh handles.
FreshBucket == Bucket_new(TheClient, BucketId)
FreshCollection == Collection_new(FreshBucket.client, FreshBucket, CollectionId)
FreshRecord == Record_new_by_id(FreshCollection, RecordId)

Fresh(k) ==
    CASE k = "bucket" -> FreshBucket
      [] k = "collection" -> FreshCollection
      [] k = "record" -> FreshRecord

\* The parent handle of the instances (none is modelled above a bucket).
Parent(k) == IF k = "collection" THEN FreshBucket ELSE FreshCollection

\* Values a caller assigns to the public data field.
LocalData == {JObj([good |-> JBool(TRUE)])}

\* data.last_modified of a local resource value, when it has one.
LocalLastModified(self) ==
    IF IsSome(self.data) THEN AsNumber(Index(Unwrap(self.data), "last_modified"))
    ELSE None

NoDispatch ==
    [op |-> "none", who |-> "A", conditional |-> FALSE,
     req |-> RequestPreparer(TheClient, <<>>),
     wire |-> WireRequest(RequestPreparer(TheClient, <<>>)),
     resp |-> TransportFailure,
     result |-> Err(HyperError),
     ids |-> <<>>, child |-> None,
     target |-> None, token |-> None, before |-> None, again |-> FALSE,
     calls |-> 0, embedded |-> None]

Init ==
    /\ kind \in Kinds
    /\ server = [id \in ServerIds(kind) |-> None]
    /\ clock = 0
    /\ inst = [i \in Instances |-> Fresh(kind)]
    /\ made = 0
    /\ removed = FALSE
    /\ snap = [i \in Instances |-> {}]
    /\ last = NoDispatch

\* How often an operation sends its request again once send has returned
\* `res`: Err(value) => return Err(value), try!(..send()), Ok(..) => Ok(..).
Resends_onError(op, res) == IF res.ok THEN 0 ELSE 1
Resends(op, res) == 0

\* One round trip: the request goes out (or the transport fails), the server
\* answers, send classifies, and on success the resource is hydrated.  A
\* failed transport changes nothing but the result handed to the caller.
Dispatch(op, i, conditional, p, hydrate) ==
    \E net \in {"ok", "failed"} :
    \E wire \in {WireRequest(p)} :
    \E h \in {ServerHandle(kind, server, clock, wire)} :
    \E resp \in {IF net = "ok" THEN h.resp ELSE TransportFailure} :
    \E res \in {send(p, resp)} :
         /\ net = "ok" => h.inBounds
         /\ server' = IF net = "ok" THEN h.server ELSE server
         /\ clock' = IF net = "ok" THEN h.clock ELSE clock
         /\ inst' = IF res.ok /\ hydrate
                    THEN [inst EXCEPT ![i] = unwrap_response(kind, inst[i], res.value)]
                    ELSE inst
         /\ made' = IF Existing(server') = {} THEN 0
                    ELSE made + Cardinality(Existing(server') \ Existing(server))
         /\ removed' = IF Existing(server') = {} THEN FALSE
                       ELSE removed \/ (Existing(server) \ Existing(server') # {})
         /\ snap' = [j \in Instances |->
                       IF server'[OwnId(kind)] = server[OwnId(kind)] THEN snap[j]
                       ELSE IF j = i /\ op \in {"create", "set"} /\ res.ok
                       THEN {inst'[j].data}
                       ELSE {}]
         /\ last' = IF net = "ok"
                    THEN [op |-> op, who |-> i, conditional |-> conditional,
                          req |-> p, wire |-> wire, resp |-> resp, result |-> res,
                          ids |-> IF res.ok /\ op = "list"
                                  THEN unwrap_collection_ids(res.value) ELSE <<>>,
                          child |-> IF res.ok /\ op = "new"
                                    THEN Some(IF kind = "collection"
                                              THEN Collection_from(res.value)
                                              ELSE Record_from(res.value))
                                    ELSE None,
                          target |-> server[OwnId(kind)],
                          token |-> get_timestamp(kind, inst[i]),
                          before |-> LocalLastModified(inst[i]),
                          again |-> /\ op = "set"
                                    /\ last.op = "set"
                                    /\ last.who = i
                                    /\ last.result.ok,
                          calls |-> 1 + Resends(op, res),
                          embedded |-> IF kind = "collection"
                                       THEN Some(inst[i].bucket) ELSE None]
                    ELSE [NoDispatch EXCEPT !.op = "failed", !.result = res,
                                            !.calls = 1 + Resends(op, res)]
         /\ UNCHANGED kind

Create(i) == Dispatch("create", i, FALSE, Resource_create(kind, inst[i]), TRUE)
Load(i) == Dispatch("load", i, FALSE, Resource_load(kind, inst[i]), TRUE)
Set(i) == Dispatch("set", i, FALSE, Resource_set(kind, inst[i]), TRUE)
Update(i) ==
    \E conditional \in BOOLEAN :
        Dispatch("update", i, conditional,
                 Resource_update(kind, inst[i], conditional), TRUE)
Delete(i) == Dispatch("delete", i, FALSE, Resource_delete(kind, inst[i]), FALSE)

\* The caller overwrites the public data field.
SetData(i) ==
    \E d \in LocalData :
        /\ inst[i].data # Some(d)
        /\ inst' = [inst EXCEPT ![i].data = Some(d)]
        /\ last' = [NoDispatch EXCEPT !.op = "assign", !.who = i]
        /\ UNCHANGED <<kind, server, clock, made, removed, snap>>

\* Bucket::list_collections / Collection::list_records
ListChildren ==
    /\ kind # "bucket"
    /\ Dispatch("list", "A", FALSE, list_children_request(kind, Parent(kind)), FALSE)

\* Bucket::delete_collections / Collection::delete_records
DeleteChildren ==
    /\ kind # "bucket"
    /\ Dispatch("delete_all", "A", FALSE,
                delete_children_request(kind, Parent(kind)), FALSE)

\* Bucket::new_collection / Collection::new_record
NewChild ==
    /\ kind # "bucket"
    /\ Dispatch("new", "A", FALSE, create_child_request(kind, Parent(kind)), FALSE)

Next ==
    \/ \E i \in Instances : Create(i)
    \/ \E i \in Instances : Load(i)
    \/ \E i \in Instances : Set(i)
    \/ \E i \in Instances : Update(i)
    \/ \E i \in Instances : Delete(i)
    \/ \E i \in Instances : SetData(i)
    \/ ListChildren
    \/ DeleteChildren
    \/ NewChild

Spec == Init /\ [][Next]_vars

\* ------------------------------------------------------------------------
\* Collections of a bucket that was loaded before: Bucket::collection moves
\* the bucket, with all it holds, into the collection handle.
\* ------------------------------------------------------------------------
LoadedBucket ==
    Bucket_from(ResponseWrapper(TheClient, Paths_Bucket(BucketId),
                                Singular(Stored(EmptyObj, BucketId, 1))))

CollectionOf(bucket) == Collection_new(bucket.client, bucket, CollectionId)

InitNested ==
    /\ kind = "collection"
    /\ server = [id \in ServerIds(kind) |-> None]
    /\ clock = 0
    /\ inst \in [Instances -> {CollectionOf(FreshBucket), CollectionOf(LoadedBucket)}]
    /\ made = 0
    /\ removed = FALSE
    /\ snap = [i \in Instances |-> {}]
    /\ last = NoDispatch

SpecNested == InitNested /\ [][Next]_vars

\* ------------------------------------------------------------------------
\* send on its own: any request a caller can build, any outcome of the
\* transport
\* ------------------------------------------------------------------------
Statuses == {200, 201, 204, 301, 304, 400, 401, 403, 404, 409, 412, 500, 503}

Outcomes ==
    {TransportFailure}
      \cup {Response(st, b, IF b = "json" THEN EmptyObj ELSE JNull) :
              st \in Statuses, b \in {"json", "garbage", "unreadable"}}

SendAny ==
    \E auth \in {None, TheClient.auth},
       reqAuth \in {None, Some("Basic mallory")},
       tag \in {None, Some(IfMatchAny), Some(EntityTag(1))},
       body \in {None, Some(EmptyObj)},
       resp \in Outcomes :
      LET p0 == UpdateRecord(KintoClient(auth), Paths_Bucket(BucketId))
          p1 == IF IsSome(reqAuth)
                THEN [p0 EXCEPT !.headers =
                         HeadersSet(@, "Authorization", Unwrap(reqAuth))]
                ELSE p0
          p2 == IF IsSome(tag) THEN if_match(p1, Unwrap(tag)) ELSE p1
          p == data(p2, body)
      IN /\ last' = [NoDispatch EXCEPT !.op = "send", !.req = p,
                        !.wire = WireRequest(p), !.resp = resp,
                        !.result = send(p, resp)]
         /\ UNCHANGED <<kind, server, clock, inst, made, removed, snap>>

SendNext == SendAny

SpecSend == Init /\ [][SendNext]_vars

\* ------------------------------------------------------------------------
\* Hydration on its own: any envelope a successful send can hand over
\* ------------------------------------------------------------------------
\* Ids put into envelope paths; one of them reads like a path keyword.
PathIds == {<<"food">>, <<"meat">>, <<"collections">>}

\* The request paths of the envelopes of one kind: the list path (create,
\* new_*) and the item path (load, set, update).
EnvelopePaths(k) ==
    CASE k = "bucket" ->
           {Paths_Buckets} \cup {Paths_Bucket(b) : b \in PathIds}
      [] k = "collection" ->
           {Paths_Collections(b) : b \in PathIds}
             \cup {Paths_Collection(b, c) : b \in PathIds, c \in PathIds}
      [] k = "record" ->
           {Paths_Records(b, c) : b \in PathIds, c \in PathIds}
             \cup {Paths_Record(b, c, r) : b \in PathIds, c \in PathIds,
                                           r \in {RecordId}}

\* A JSON object with the given optional members.
ObjectOf(members) ==
    JObj([k \in {x \in DOMAIN members : IsSome(members[x])} |-> Unwrap(members[k])])

\* Bodies with and without data.id, data.last_modified and permissions.
EnvelopeBodies ==
    {ObjectOf([data |-> Some(ObjectOf([id |-> id, last_modified |-> lm])),
               permissions |-> perms]) :
        id \in {None, Some(JStr(BucketId)), Some(JStr(<<GenNames[1]>>))},
        lm \in {None, Some(JNum(1)), Some(JNum(2))},
        perms \in {None, Some(EmptyObj),
                   Some(JObj([read |-> JArr(<<JStr(Owner)>>)]))}}

\* The unwrap() calls of hydration that panic on this envelope.
HydratePanics(k, wrapper) ==
    LET d == Index(wrapper.json, "data")
    IN CASE k = "bucket" -> AsNumber(Index(d, "last_modified")) = None
         [] k = "collection" ->
              \/ AsNumber(Index(d, "last_modified")) = None
              \/ extract_ids_from_path(wrapper.path).buckets = None
         [] k = "record" ->
              \/ Index(wrapper.json, "permissions").t # "obj"
              \/ AsStr(Index(d, "id")) = None

\* The value wrapper.into() builds, per kind.
FromWrapper(k, wrapper) ==
    CASE k = "bucket" -> Bucket_from(wrapper)
      [] k = "collection" -> Collection_from(wrapper)
      [] k = "record" -> Record_from(wrapper)

Hydrate ==
    \E path \in EnvelopePaths(kind), json \in EnvelopeBodies :
      LET wrapper == ResponseWrapper(TheClient, path, json)
          panics == HydratePanics(kind, wrapper)
      IN /\ last' = [op |-> "hydrate", wrapper |-> wrapper, panics |-> panics,
                     self |-> IF panics THEN None
                              ELSE Some(unwrap_response(kind, inst["A"], wrapper)),
                     built |-> IF panics THEN None
                               ELSE Some(FromWrapper(kind, wrapper))]
         /\ UNCHANGED <<kind, server, clock, inst, made, removed, snap>>

HydrateNext == Hydrate

SpecHydrate == Init /\ [][HydrateNext]_vars

\* ------------------------------------------------------------------------
\* The payload setters on their own: two calls on a payload-bearing request
\* ------------------------------------------------------------------------
BodyData == LocalData \cup {JObj([id |-> JStr(BucketId)])}
BodyPermissions == {EmptyObj, JObj([read |-> JArr(<<JStr(Owner)>>)])}

\* The bodies a request can hold before a setter is called.
StartBodies ==
    {None, Some(EmptyObj), Some(JObj([data |-> JBool(FALSE)])),
     Some(JObj([permissions |-> JBool(FALSE), extra |-> JNum(1)]))}

SetterCalls ==
    {[setter |-> "data", arg |-> a] : a \in {None} \cup {Some(d) : d \in BodyData}}
      \cup {[setter |-> "permissions", arg |-> a] :
               a \in {None} \cup {Some(q) : q \in BodyPermissions}}

ApplySetter(p, call) ==
    IF call.setter = "data" THEN data(p, call.arg) ELSE permissions(p, call.arg)

BuildBody ==
    \E new \in {"CreateRecord", "UpdateRecord"}, body \in StartBodies,
       first \in SetterCalls, second \in SetterCalls :
      LET p0 == IF new = "CreateRecord"
                THEN CreateRecord(TheClient, Paths_Buckets)
                ELSE UpdateRecord(TheClient, Paths_Bucket(BucketId))
          p1 == [p0 EXCEPT !.body = body]
          p2 == ApplySetter(p1, first)
          p3 == ApplySetter(p2, second)
      IN /\ last' = [op |-> "build", calls |-> <<first, second>>,
                     reqs |-> <<p1, p2, p3>>]
         /\ UNCHANGED <<kind, server, clock, inst, made, removed, snap>>

BodyNext == BuildBody

SpecBody == Init /\ [][BodyNext]_vars

\* ------------------------------------------------------------------------
\* Bucket permissions on their own: to JSON and back
\* ------------------------------------------------------------------------
Everyone == <<"system.Everyone">>
PrincipalLists == {<<>>, <<Owner>>, <<Everyone>>, <<Owner, Everyone>>}

BucketPermissionsValues ==
    [read : PrincipalLists, write : PrincipalLists,
     create_collection : PrincipalLists, create_group : PrincipalLists]

ConvertPermissions ==
    \E perms \in BucketPermissionsValues :
      LET json == BucketPermissions_into(perms)
      IN /\ last' = [op |-> "permissions", perms |-> perms, json |-> json,
                     parsed |-> BucketPermissions_from(json)]
         /\ UNCHANGED <<kind, server, clock, inst, made, removed, snap>>

PermissionsNext == ConvertPermissions

SpecPermissions == Init /\ [][PermissionsNext]_vars

\* The id of a resource value.
IdOf(k, self) == IF k = "record" THEN Unwrap(self.id) ELSE self.id

TypeOK ==
    /\ kind \in Kinds
    /\ clock \in 0..MaxTs
    /\ DOMAIN server = ServerIds(kind)
    /\ made \in 0..(MaxGen + 1)

\* ------------------------------------------------------------------------
\* Properties
\* ------------------------------------------------------------------------
Answered == last.resp.transport = "ok"

\* An error of the request-failure kind for `status`: it carries the status
\* and is not the error a failed transport gives.
IsRequestError(res, status) ==
    /\ ~res.ok
    /\ "status" \in DOMAIN res.err
    /\ res.err.status = status
    /\ res # send(last.req, TransportFailure)

\* C1: a response whose status is not 2xx, not 304 and not 412 yields a
\* request error that carries that status and differs from the error of a
\* failed transport.
C1_RequestErrorCarriesStatus ==
    (/\ last.op = "send"
     /\ Answered
     /\ ~IsSuccess(last.resp.status)
     /\ last.resp.status \notin {304, 412})
    => IsRequestError(last.result, last.resp.status)

\* C2: status 304 always yields NotModified and status 412 always yields
\* PreconditionError, whatever the body is and whether or not it can be read
\* or parsed; neither is reported as the generic failure or as a JSON error.
C2_ConditionalOutcomesFirst ==
    (last.op = "send" /\ Answered)
    => /\ last.resp.status = 304 => last.result = Err(NotModified)
       /\ last.resp.status = 412 => last.result = Err(PreconditionError)

C2_Witness ==
    /\ last.op = "send"
    /\ Answered
    /\ last.resp.status = 412
    /\ last.resp.body = "garbage"
    /\ last.result = Err(PreconditionError)

\* C3: on the wire, every request-specific header has the request's value,
\* also when the client's authentication header has the same name; the
\* client's header is sent when the request does not define it.
C3_RequestHeadersWin ==
    last.op = "send"
    => /\ \A n \in DOMAIN last.req.headers :
            /\ n \in DOMAIN last.wire.headers
            /\ last.wire.headers[n] = last.req.headers[n]
       /\ (IsSome(last.req.client.auth)
             /\ "Authorization" \notin DOMAIN last.req.headers)
          => /\ "Authorization" \in DOMAIN last.wire.headers
             /\ last.wire.headers["Authorization"] = Unwrap(last.req.client.auth)
       /\ DOMAIN last.wire.headers =
            DOMAIN last.req.headers
              \cup (IF IsSome(last.req.client.auth) THEN {"Authorization"} ELSE {})

\* The resource the two instances address, as the server has it now.
Current == server[OwnId(kind)]

\* C4: a conditional update carrying a revision other than the resource's
\* current one fails with PreconditionError and leaves the resource as it
\* was; and after a successful write by one instance, the revision every
\* other instance holds is such a stale one.
C4_StaleUpdateRejected ==
    /\ (/\ last.op = "update"
        /\ Answered
        /\ last.conditional
        /\ IsSome(last.token)
        /\ IsSome(last.target)
        /\ Unwrap(last.token) # LastModified(Unwrap(last.target)))
       => /\ last.result = Err(PreconditionError)
          /\ Current = last.target
    /\ (/\ last.op \in {"create", "set", "update"}
        /\ last.result.ok)
       => \A j \in Instances \ {last.who} :
              IsSome(get_timestamp(kind, inst[j]))
              => Unwrap(get_timestamp(kind, inst[j])) < LastModified(Unwrap(Current))

C4_Witness ==
    /\ last.op = "update"
    /\ last.who = "B"
    /\ last.conditional
    /\ IsSome(last.token)
    /\ IsSome(last.target)
    /\ Unwrap(last.token) < LastModified(Unwrap(last.target))
    /\ last.result = Err(PreconditionError)
    /\ Current = last.target
    /\ Index(Unwrap(Current).data, "good") = JBool(TRUE)

\* C5: create on an id that exists on the server never succeeds and returns
\* a request error.
C5_CreateExistingIsRequestError ==
    (last.op = "create" /\ Answered /\ IsSome(last.target))
    => IsRequestError(last.result, last.resp.status)

\* C6: load and update on an id that does not exist on the server return a
\* request error, and update does not create the resource.
C6_MissingIsRequestError ==
    (last.op \in {"load", "update"} /\ Answered /\ last.target = None)
    => /\ IsRequestError(last.result, last.resp.status)
       /\ Current = None

\* C7: a successful update leaves the resource with the same id and with a
\* data.last_modified strictly greater than the one it had before the call,
\* than the revision it held, and than the server's revision before the call.
C7_UpdateIncreasesTimestamp ==
    (last.op = "update" /\ last.result.ok)
    => LET after == LocalLastModified(inst[last.who])
       IN /\ get_id(kind, inst[last.who]) = OwnId(kind)
          /\ IsSome(after)
          /\ IsSome(last.before) => Unwrap(after) > Unwrap(last.before)
          /\ IsSome(last.token) => Unwrap(after) > Unwrap(last.token)
          /\ IsSome(last.target)
          /\ Unwrap(after) > LastModified(Unwrap(last.target))

\* Two successful updates in a row by the same instance.
C7_Witness ==
    /\ last.op = "update"
    /\ last.result.ok
    /\ IsSome(last.before)
    /\ Unwrap(last.before) >= 2
    /\ Unwrap(LocalLastModified(inst[last.who])) > Unwrap(last.before)

\* C8: a load by an instance whose create/set succeeded, with no write to the
\* server resource since, succeeds and gives back the data the instance held
\* right after that create/set.
C8_LoadRoundTrip ==
    (last.op = "load" /\ Answered /\ snap[last.who] # {})
    => /\ last.result.ok
       /\ snap[last.who] = {inst[last.who].data}

\* The local data had been overwritten before the load.
C8_Witness ==
    /\ last.op = "load"
    /\ last.result.ok
    /\ snap[last.who] = {inst[last.who].data}
    /\ last.before = None
    /\ Index(Unwrap(inst[last.who].data), "good") = JBool(TRUE)

\* C9: after a successful create, set, update or load the resource's
\* timestamp is Some and equals data.last_modified; a resource that was never
\* persisted has neither data nor timestamp.
C9_TimestampTracksData ==
    /\ (last.op \in {"create", "set", "update", "load"} /\ last.result.ok)
       => /\ IsSome(get_timestamp(kind, inst[last.who]))
          /\ get_timestamp(kind, inst[last.who]) = LocalLastModified(inst[last.who])
    /\ \A i \in Instances :
          inst[i] = Fresh(kind)
          => inst[i].data = None /\ get_timestamp(kind, inst[i]) = None

C11_IdFromBodyOrPath ==
    (last.op = "hydrate" /\ ~last.panics)
    => LET wrapper == last.wrapper
           id == Index(Index(wrapper.json, "data"), "id")
       IN IdOf(kind, Unwrap(last.self)) =
            IF id.t # "null" THEN to_string(id)
            ELSE <<wrapper.path[Len(wrapper.path)]>>

\* The path builder gives distinct paths to distinct ancestor ids.
PathsInjective ==
    /\ \A b1 \in PathIds, b2 \in PathIds :
         (\/ Paths_Bucket(b1) = Paths_Bucket(b2)
          \/ Paths_Collections(b1) = Paths_Collections(b2)) => b1 = b2
    /\ \A b1 \in PathIds, b2 \in PathIds, c1 \in PathIds, c2 \in PathIds :
         (\/ Paths_Collection(b1, c1) = Paths_Collection(b2, c2)
          \/ Paths_Records(b1, c1) = Paths_Records(b2, c2)
          \/ Paths_Record(b1, c1, RecordId) = Paths_Record(b2, c2, RecordId))
         => (b1 = b2 /\ c1 = c2)

\* C12: the paths built for (b) and (b, c) are /buckets/b/collections,
\* /buckets/b/collections/c and /buckets/b/collections/c/records, distinct
\* ancestor ids give distinct paths, and a collection (a record) hydrated
\* from an envelope with such a request path has exactly the bucket id (and
\* the collection id) the path was built from.
C12_PathRoundTrip ==
    /\ \A b \in PathIds, c \in PathIds :
         /\ Paths_Collections(b) = <<"buckets">> \o b \o <<"collections">>
         /\ Paths_Collection(b, c) = <<"buckets">> \o b \o <<"collections">> \o c
         /\ Paths_Records(b, c) =
              <<"buckets">> \o b \o <<"collections">> \o c \o <<"records">>
    /\ PathsInjective
    /\ (last.op = "hydrate" /\ ~last.panics)
       => \A b \in PathIds, c \in PathIds :
            /\ (/\ kind = "collection"
                /\ last.wrapper.path \in {Paths_Collections(b), Paths_Collection(b, c)})
               => Unwrap(last.built).bucket.id = b
            /\ (/\ kind = "record"
                /\ last.wrapper.path \in {Paths_Records(b, c),
                                          Paths_Record(b, c, RecordId)})
               => /\ Unwrap(last.built).collection.bucket.id = b
                  /\ Unwrap(last.built).collection.id = c

\* A collection hydrated from /buckets/meat/collections/collections whose
\* body names another id.
C12_Witness ==
    /\ last.op = "hydrate"
    /\ ~last.panics
    /\ kind = "collection"
    /\ last.wrapper.path = Paths_Collection(<<"meat">>, <<"collections">>)
    /\ Unwrap(last.built).id = BucketId
    /\ Unwrap(last.built).bucket.id = <<"meat">>

\* The keys of a request body, none when the body is absent.
BodyKeys(p) == IF IsSome(p.body) THEN DOMAIN Unwrap(p.body).o ELSE {}

\* `after` is `before` with only the body key `key` set, to `v`.
OnlyKeySet(before, after, key, v) ==
    /\ after = [before EXCEPT !.body = after.body]
    /\ IsSome(after.body)
    /\ BodyKeys(after) = BodyKeys(before) \cup {key}
    /\ Index(Unwrap(after.body), key) = v
    /\ \A k \in BodyKeys(before) \ {key} :
         Index(Unwrap(after.body), k) = Index(Unwrap(before.body), k)

\* C13: data(None) and permissions(None) leave the request as it is, body
\* absent included; data(Some(d)) and permissions(Some(p)) set only the body
\* key "data", respectively "permissions"; after both on a new request, in
\* either order, the body is {"data": d, "permissions": p}.
C13_SettersMerge ==
    last.op = "build"
    => /\ \A i \in 1..2 :
            IF last.calls[i].arg = None
            THEN last.reqs[i + 1] = last.reqs[i]
            ELSE OnlyKeySet(last.reqs[i], last.reqs[i + 1],
                            last.calls[i].setter, Unwrap(last.calls[i].arg))
       /\ \A d \in BodyData, q \in BodyPermissions :
            (/\ last.reqs[1].body = None
             /\ {last.calls[1], last.calls[2]} =
                  {[setter |-> "data", arg |-> Some(d)],
                   [setter |-> "permissions", arg |-> Some(q)]})
            => last.reqs[3].body = Some(JObj([data |-> d, permissions |-> q]))

\* data(Some(d)) then permissions(Some(p)) on a new request.
C13_Witness ==
    /\ last.op = "build"
    /\ last.reqs[1].body = None
    /\ last.calls[1] = [setter |-> "data", arg |-> Some(JObj([good |-> JBool(TRUE)]))]
    /\ last.calls[2].setter = "permissions"
    /\ last.calls[2].arg # None
    /\ BodyKeys(last.reqs[3]) = {"data", "permissions"}

\* The members of the data a request carries, the server-managed ones aside.
SuppliedData(p) ==
    LET d == IF IsSome(p.body) THEN Index(Unwrap(p.body), "data") ELSE JNull
    IN IF d.t = "obj"
       THEN [k \in (DOMAIN d.o) \ {"id", "last_modified"} |-> d.o[k]]
       ELSE <<>>

\* C14: set sends an unconditional PUT to the resource's own path; when it
\* is answered it succeeds, whether or not the resource existed, and
\* afterwards the server holds exactly one resource with that id, holding
\* the supplied data.  A set repeated after a successful set is such a set.
C14_SetCreatesOrReplaces ==
    (last.op = "set" /\ Answered)
    => /\ last.wire.method = "PUT"
       /\ last.wire.url[2] = ListPath(kind) \o OwnId(kind)
       /\ DOMAIN last.wire.headers = {"Authorization"}
       /\ last.result.ok
       /\ IsSome(Current)
       /\ {id \in Existing(server) :
             Index(Unwrap(server[id]).data, "id") = JStr(OwnId(kind))}
            = {OwnId(kind)}
       /\ \A k \in DOMAIN SuppliedData(last.req) :
            Index(Unwrap(Current).data, k) = SuppliedData(last.req)[k]
       /\ get_id(kind, inst[last.who]) = OwnId(kind)

\* A set right after a successful set by the same instance, on data the
\* caller supplied.
C14_Witness ==
    /\ last.op = "set"
    /\ last.again
    /\ last.result.ok
    /\ IsSome(last.target)
    /\ clock = 2
    /\ Existing(server) = {OwnId(kind)}
    /\ Index(Unwrap(Current).data, "good") = JBool(TRUE)

Operations ==
    {"create", "load", "set", "update", "delete", "list", "delete_all", "new"}

C16_BucketPermissionsRoundTrip ==
    last.op = "permissions" => last.parsed = last.perms

\* C17: a successful create, set, update or load of a collection keeps the
\* id of the embedded parent bucket and leaves the embedded bucket with no
\* data, no timestamp and no permissions, whatever it held before.
C17_ParentBucketReset ==
    (/\ kind = "collection"
     /\ last.op \in {"create", "set", "update", "load"}
     /\ last.result.ok)
    => LET bucket == inst[last.who].bucket
       IN /\ bucket.id = Unwrap(last.embedded).id
          /\ bucket.data = None
          /\ bucket.timestamp = None
          /\ bucket.permissions = None

\* A load through a handle whose parent bucket had been loaded itself.
C17_Witness ==
    /\ last.op = "load"
    /\ last.result.ok
    /\ Unwrap(last.embedded).data # None
    /\ Unwrap(last.embedded).timestamp # None
    /\ Unwrap(last.embedded).permissions # None
    /\ inst[last.who].bucket = FreshBucket

====
